---- MODULE Spec2Model ----
(***************************************************************************)
(* Model of src/generateSpec.ts: the translation of routing-controllers    *)
(* route metadata into an OpenAPI 3.0 document.                            *)
(*                                                                         *)
(* Representation of JavaScript values:                                    *)
(*   - a string the code inspects character by character (paths, parameter *)
(*     names, class and method names) is a tuple of one-character strings; *)
(*   - a string the code only passes on (media types, HTTP methods) is a   *)
(*     TLA+ string;                                                        *)
(*   - an optional value is None (undefined) or Some(v);                   *)
(*   - an object is a function from its keys, an array a sequence.         *)
(***************************************************************************)
EXTENDS Integers, Sequences, FiniteSets, TLC

VARIABLES
    routes,   \* the IRoute[] handed to the generator
    called,   \* the exported function that was called ("none" before a call)
    arg,      \* index in routes of the route passed to a per-route function
    ret       \* [threw, value]: the call's outcome

vars == <<routes, called, arg, ret>>

(***************************************************************************)
(* Bounds of the model.                                                    *)
(***************************************************************************)
MaxRoutes == 2      \* routes per document in the merge family
MaxParams == 2      \* parameter descriptors per route
MaxHandlers == 2    \* response-handler descriptors per route
MaxSeg == 3         \* characters of a generated action route

None == <<>>
Some(v) == <<v>>

(***************************************************************************)
(* Characters.                                                             *)
(***************************************************************************)
LowerCase == <<"a","b","c","d","e","f","g","h","i","j","k","l","m",
               "n","o","p","q","r","s","t","u","v","w","x","y","z">>
UpperCase == <<"A","B","C","D","E","F","G","H","I","J","K","L","M",
               "N","O","P","Q","R","S","T","U","V","W","X","Y","Z">>
Digits == {"0","1","2","3","4","5","6","7","8","9"}

Range(s) == {s[i] : i \in DOMAIN s}
IsLower(c) == c \in Range(LowerCase)
IsUpper(c) == c \in Range(UpperCase)

\* the character class [A-Za-z0-9_] of both regular expressions
IdentChars == Range(LowerCase) \cup Range(UpperCase) \cup Digits \cup {"_"}

ToUpper(c) == IF IsLower(c) THEN UpperCase[CHOOSE i \in 1..26 : LowerCase[i] = c] ELSE c
ToLower(c) == IF IsUpper(c) THEN LowerCase[CHOOSE i \in 1..26 : UpperCase[i] = c] ELSE c

\* index of the last character of the longest run of [A-Za-z0-9_] that
\* starts at i (i - 1 when s[i] is no such character)
RECURSIVE IdentEnd(_, _)
IdentEnd(s, i) ==
    IF i <= Len(s) /\ s[i] \in IdentChars THEN IdentEnd(s, i + 1) ELSE i - 1

\* a replacement without the g flag: only the first :name is rewritten
RECURSIVE ReplaceFirstColonParam(_, _)
ReplaceFirstColonParam(s, i) ==
    IF i > Len(s) THEN <<>>
    ELSE LET j == IdentEnd(s, i + 1) IN
         IF s[i] = ":" /\ j > i
         THEN <<"{">> \o SubSeq(s, i + 1, j) \o <<"}">> \o SubSeq(s, j + 1, Len(s))
         ELSE <<s[i]>> \o ReplaceFirstColonParam(s, i + 1)

(***************************************************************************)
(* getFullPath: path.replace(/:([A-Za-z0-9_]+)/gi, '{$1}')                 *)
(***************************************************************************)
RECURSIVE ReplaceColonParams(_, _)
ReplaceColonParams(s, i) ==
    IF i > Len(s) THEN <<>>
    ELSE LET j == IdentEnd(s, i + 1) IN
         IF s[i] = ":" /\ j > i
         THEN <<"{">> \o SubSeq(s, i + 1, j) \o <<"}">> \o ReplaceColonParams(s, j + 1)
         ELSE <<s[i]>> \o ReplaceColonParams(s, i + 1)

\* (options.routePrefix || '') + controller.route + action.route
RawPath(route) ==
    (IF route.options.routePrefix = None THEN <<>> ELSE route.options.routePrefix[1])
        \o route.controller.route \o route.action.route

getFullPath(route) == ReplaceColonParams(RawPath(route), 1)

(***************************************************************************)
(* path.match(/{[A-Za-z0-9_]+}/gi): the matches, left to right             *)
(***************************************************************************)
RECURSIVE MatchBraceParams(_, _)
MatchBraceParams(s, i) ==
    IF i > Len(s) THEN <<>>
    ELSE LET j == IdentEnd(s, i + 1) IN
         IF s[i] = "{" /\ j > i /\ j < Len(s) /\ s[j + 1] = "}"
         THEN <<SubSeq(s, i, j + 1)>> \o MatchBraceParams(s, j + 2)
         ELSE MatchBraceParams(s, i + 1)

\* d => d.slice(1, -1)
Slice1(d) == SubSeq(d, 2, Len(d) - 1)

\* _.map(path.match(...), d => d.slice(1, -1))
ParamNames(path) ==
    LET m == MatchBraceParams(path, 1) IN [k \in 1..Len(m) |-> Slice1(m[k])]

(***************************************************************************)
(* lodash string helpers, for names made of ASCII letters, digits and      *)
(* separator characters.                                                   *)
(***************************************************************************)
RECURSIVE LowerEnd(_, _)
LowerEnd(s, i) == IF i <= Len(s) /\ IsLower(s[i]) THEN LowerEnd(s, i + 1) ELSE i - 1

RECURSIVE UpperEnd(_, _)
UpperEnd(s, i) == IF i <= Len(s) /\ IsUpper(s[i]) THEN UpperEnd(s, i + 1) ELSE i - 1

RECURSIVE DigitEnd(_, _)
DigitEnd(s, i) == IF i <= Len(s) /\ s[i] \in Digits THEN DigitEnd(s, i + 1) ELSE i - 1

\* _.words(s): "getUser" -> get, User; "HTTPServer" -> HTTP, Server
RECURSIVE Words(_, _)
Words(s, i) ==
    IF i > Len(s) THEN <<>>
    ELSE IF IsLower(s[i])
         THEN LET j == LowerEnd(s, i) IN <<SubSeq(s, i, j)>> \o Words(s, j + 1)
    ELSE IF s[i] \in Digits
         THEN LET j == DigitEnd(s, i) IN <<SubSeq(s, i, j)>> \o Words(s, j + 1)
    ELSE IF IsUpper(s[i])
         THEN IF i < Len(s) /\ IsLower(s[i + 1])
              THEN LET j == LowerEnd(s, i + 1) IN <<SubSeq(s, i, j)>> \o Words(s, j + 1)
              ELSE LET j == UpperEnd(s, i)
                       e == IF j < Len(s) /\ IsLower(s[j + 1]) THEN j - 1 ELSE j
                   IN <<SubSeq(s, i, e)>> \o Words(s, e + 1)
    ELSE Words(s, i + 1)

UpperFirst(s) == IF s = <<>> THEN s ELSE <<ToUpper(s[1])>> \o Tail(s)

RECURSIVE JoinWords(_)
JoinWords(ws) ==
    IF ws = <<>> THEN <<>>
    ELSE IF Len(ws) = 1 THEN UpperFirst(ws[1])
    ELSE UpperFirst(ws[1]) \o <<" ">> \o JoinWords(Tail(ws))

\* _.startCase(s)
StartCase(s) == JoinWords(Words(s, 1))

\* _.capitalize(s)
Capitalize(s) == UpperFirst([i \in 1..Len(s) |-> ToLower(s[i])])

ControllerSuffix == <<"C","o","n","t","r","o","l","l","e","r">>

\* name.replace(/Controller$/, '')
StripControllerSuffix(name) ==
    LET n == Len(name)
        k == Len(ControllerSuffix)
    IN IF n >= k /\ SubSeq(name, n - k + 1, n) = ControllerSuffix
       THEN SubSeq(name, 1, n - k)
       ELSE name

(***************************************************************************)
(* Small pieces: operation id, summary, tags, required-ness, $ref          *)
(***************************************************************************)
getOperationId(route) == route.action.target \o <<".">> \o route.action.method

getSummary(route) == Capitalize(StartCase(route.action.method))

getTags(route) == <<StartCase(StripControllerSuffix(route.controller.target))>>

\* a resolution that never consults the global default
isRequiredOwnFlagOnly(meta, route) == meta.required = Some(TRUE)

\* globalRequired ? meta.required !== false : !!meta.required
isRequired(meta, route) ==
    IF route.options.required = Some(TRUE)
    THEN meta.required # Some(FALSE)
    ELSE meta.required = Some(TRUE)

RefPrefix == <<"#","/","c","o","m","p","o","n","e","n","t","s","/",
               "s","c","h","e","m","a","s","/">>

makeRef(schemaName) == ("$ref" :> (RefPrefix \o schemaName))

(***************************************************************************)
(* Type recovery.  A descriptor's paramtypes field is what                 *)
(* Reflect.getMetadata('design:paramtypes', object, method) returns for    *)
(* its object and method: None (undefined) or Some(array of classes).  A   *)
(* class is modelled by its name.                                          *)
(***************************************************************************)
NumberClass == <<"N","u","m","b","e","r">>
StringClass == <<"S","t","r","i","n","g">>

getParamTypes(meta) == meta.paramtypes

\* getParamTypes(object, method)[index] raises TypeError on undefined
TypeIndexThrows(meta) == getParamTypes(meta) = None

\* getParamTypes(object, method)[index]: Some(class) or None (undefined)
TypeAt(meta) ==
    LET types == getParamTypes(meta)[1] IN
    IF meta.index + 1 \in DOMAIN types THEN Some(types[meta.index + 1]) ELSE None

\* typeCls.prototype and type.name raise TypeError on an undefined class
TypeThrows(meta) == TypeIndexThrows(meta) \/ TypeAt(meta) = None

\* _.isNumber(typeCls.prototype) ? 'number' : 'string'
SchemaType(meta) == IF TypeAt(meta)[1] = NumberClass THEN "number" ELSE "string"

\* a lookup that returns the last match
FindLastNamedParam(params, name, type) ==
    LET hits == {k \in DOMAIN params : params[k].type = type /\ params[k].name = Some(name)}
    IN IF hits = {} THEN 0 ELSE CHOOSE k \in hits : \A h \in hits : k >= h

\* _.find(route.params, { name, type }): index of the first match, 0 if none
FindNamedParam(params, name, type) ==
    LET hits == {k \in DOMAIN params : params[k].type = type /\ params[k].name = Some(name)}
    IN IF hits = {} THEN 0 ELSE CHOOSE k \in hits : \A h \in hits : k <= h

\* a lookup that returns the last match
FindLastByType(list, type) ==
    LET hits == {k \in DOMAIN list : list[k].type = type}
    IN IF hits = {} THEN 0 ELSE CHOOSE k \in hits : \A h \in hits : k >= h

\* _.find(list, { type }): index of the first match, 0 if none
FindByType(list, type) ==
    LET hits == {k \in DOMAIN list : list[k].type = type}
    IN IF hits = {} THEN 0 ELSE CHOOSE k \in hits : \A h \in hits : k <= h

(***************************************************************************)
(* getPathParams                                                           *)
(***************************************************************************)
PathParam(route, name) ==
    LET k == FindNamedParam(route.params, name, "param") IN
    IF k = 0
    THEN [in |-> "path", name |-> name, required |-> TRUE, schema |-> [type |-> "string"]]
    ELSE [in |-> "path", name |-> name,
          required |-> isRequired(route.params[k], route),
          schema |-> [type |-> SchemaType(route.params[k])]]

getPathParamsThrows(route) ==
    \E name \in Range(ParamNames(getFullPath(route))) :
        LET k == FindNamedParam(route.params, name, "param") IN
        k # 0 /\ TypeThrows(route.params[k])

getPathParams(route) ==
    LET paramNames == ParamNames(getFullPath(route)) IN
    [i \in 1..Len(paramNames) |-> PathParam(route, paramNames[i])]

(***************************************************************************)
(* getQueryParams                                                          *)
(***************************************************************************)
IsQuery(meta) == meta.type = "query"

QueryParam(route, meta) ==
    [in |-> "query",
     name |-> IF meta.name = None THEN <<>> ELSE meta.name[1],
     required |-> isRequired(meta, route),
     schema |-> [type |-> SchemaType(meta)]]

QueriesParam(route, meta) ==
    [in |-> "query",
     name |-> TypeAt(meta)[1],
     required |-> isRequired(meta, route),
     schema |-> makeRef(TypeAt(meta)[1])]

getQueryParamsThrows(route) ==
    \/ \E k \in DOMAIN route.params : IsQuery(route.params[k]) /\ TypeThrows(route.params[k])
    \/ LET q == FindByType(route.params, "queries") IN
       q # 0 /\ TypeThrows(route.params[q])

getQueryParams(route) ==
    LET metas == SelectSeq(route.params, IsQuery)
        queries == [i \in 1..Len(metas) |-> QueryParam(route, metas[i])]
        q == FindByType(route.params, "queries")
    IN IF q # 0 THEN Append(queries, QueriesParam(route, route.params[q])) ELSE queries

(***************************************************************************)
(* getRequestBody: Some(body) or None (the function returns nothing)       *)
(***************************************************************************)
getRequestBodyThrows(route) ==
    LET b == FindByType(route.params, "body") IN b # 0 /\ TypeThrows(route.params[b])

getRequestBody(route) ==
    LET b == FindByType(route.params, "body") IN
    IF b = 0 THEN None
    ELSE LET meta == route.params[b] IN
         Some([content |-> ("application/json" :> [schema |-> makeRef(TypeAt(meta)[1])]),
               description |-> TypeAt(meta)[1],
               required |-> isRequired(meta, route)])

(***************************************************************************)
(* getResponses                                                            *)
(***************************************************************************)
\* responses that keep the default "200" entry beside an overriding status
getResponsesKeepDefault(route) ==
    LET c == FindByType(route.responseHandlers, "content-type")
        contentType == IF c # 0 THEN route.responseHandlers[c].value ELSE "application/json"
        s == FindByType(route.responseHandlers, "success-code")
        successStatus == IF s # 0 THEN ToString(route.responseHandlers[s].value) ELSE "200"
        response == [content |-> (contentType :> <<>>), description |-> "Successful response"]
    IN (successStatus :> response) @@ ("200" :> response)

EmptyObject == <<>>

getResponses(route) ==
    LET isJSON == route.controller.type = "json"
        defaultContentType == IF isJSON THEN "application/json" ELSE "text/html; charset=utf-8"
        c == FindByType(route.responseHandlers, "content-type")
        contentType == IF c # 0 THEN route.responseHandlers[c].value ELSE defaultContentType
        s == FindByType(route.responseHandlers, "success-code")
        successStatus == IF s # 0 THEN ToString(route.responseHandlers[s].value) ELSE "200"
    IN successStatus :> [content |-> (contentType :> EmptyObject),
                         description |-> "Successful response"]

(***************************************************************************)
(* getOperation                                                            *)
(***************************************************************************)
\* _.isEmpty of a string, an array or a plain object
IsEmpty(value) == DOMAIN value = {}

\* _.isEmpty of a possibly undefined object
IsEmptyOpt(opt) == opt = None \/ IsEmpty(opt[1])

\* a cleaning that drops undefined values only
OmitUndefined(operation) ==
    LET kept == {k \in DOMAIN operation : k = "requestBody" => operation[k] # None}
    IN [k \in kept |-> IF k = "requestBody" THEN operation[k][1] ELSE operation[k]]

\* _.omitBy(operation, _.isEmpty); requestBody is the one field that may
\* be undefined
OmitEmpty(operation) ==
    LET kept == {k \in DOMAIN operation :
                    IF k = "requestBody" THEN ~IsEmptyOpt(operation[k])
                                         ELSE ~IsEmpty(operation[k])}
    IN [k \in kept |-> IF k = "requestBody" THEN operation[k][1] ELSE operation[k]]

getOperationThrows(route) ==
    getPathParamsThrows(route) \/ getQueryParamsThrows(route) \/ getRequestBodyThrows(route)

\* an operation whose query parameters come before its path parameters
getOperationQueryFirst(route) ==
    OmitEmpty([operationId |-> getOperationId(route),
               parameters |-> getQueryParams(route) \o getPathParams(route),
               requestBody |-> getRequestBody(route),
               responses |-> getResponses(route),
               summary |-> getSummary(route),
               tags |-> getTags(route)])

getOperation(route) ==
    LET operation == [operationId |-> getOperationId(route),
                      parameters |-> getPathParams(route) \o getQueryParams(route),
                      requestBody |-> getRequestBody(route),
                      responses |-> getResponses(route),
                      summary |-> getSummary(route),
                      tags |-> getTags(route)]
    IN OmitEmpty(operation)

(***************************************************************************)
(* _.merge on the document's shape.  A key only one side has keeps that    *)
(* side's value; on a key both have, objects and arrays merge recursively  *)
(* (arrays index by index) and any other source value is assigned.         *)
(***************************************************************************)
\* both: the merged value of every key that object and source share
MergeObject(object, source, both) ==
    [k \in DOMAIN object \cup DOMAIN source |->
        IF k \notin DOMAIN source THEN object[k]
        ELSE IF k \notin DOMAIN object THEN source[k]
        ELSE both[k]]

Shared(object, source) == DOMAIN object \cap DOMAIN source

\* an object of plain values: the source's values are assigned
MergePlain(object, source) ==
    MergeObject(object, source, [k \in Shared(object, source) |-> source[k]])

\* { in, name, required, schema }
MergeParameter(object, source) ==
    MergeObject(object, source,
        [k \in Shared(object, source) |->
            IF k = "schema" THEN MergePlain(object[k], source[k]) ELSE source[k]])

\* { [mediaType]: { schema } }
MergeBodyContent(object, source) ==
    MergeObject(object, source,
        [media \in Shared(object, source) |->
            MergeObject(object[media], source[media],
                [k \in Shared(object[media], source[media]) |->
                    MergePlain(object[media][k], source[media][k])])])

\* { content, description, required }
MergeRequestBody(object, source) ==
    MergeObject(object, source,
        [k \in Shared(object, source) |->
            IF k = "content" THEN MergeBodyContent(object[k], source[k]) ELSE source[k]])

\* { content: { [mediaType]: {} }, description }
MergeResponse(object, source) ==
    MergeObject(object, source,
        [k \in Shared(object, source) |->
            IF k = "content"
            THEN MergeObject(object[k], source[k],
                     [media \in Shared(object[k], source[k]) |->
                         MergePlain(object[k][media], source[k][media])])
            ELSE source[k]])

\* { [status]: response }
MergeResponses(object, source) ==
    MergeObject(object, source,
        [status \in Shared(object, source) |->
            MergeResponse(object[status], source[status])])

\* arrays merge index by index
MergeParameters(object, source) ==
    MergeObject(object, source,
        [i \in Shared(object, source) |-> MergeParameter(object[i], source[i])])

MergeTags(object, source) == MergePlain(object, source)

\* a merge that replaces an operation instead of merging into it
AssignOperation(object, source) == source

MergeOperation(object, source) ==
    MergeObject(object, source,
        [k \in Shared(object, source) |->
            CASE k = "parameters" -> MergeParameters(object[k], source[k])
              [] k = "requestBody" -> MergeRequestBody(object[k], source[k])
              [] k = "responses" -> MergeResponses(object[k], source[k])
              [] k = "tags" -> MergeTags(object[k], source[k])
              [] OTHER -> source[k]])

\* a merge that replaces a path item instead of merging into it
AssignPathItem(object, source) == source

\* { [method]: operation }
MergePathItem(object, source) ==
    MergeObject(object, source,
        [method \in Shared(object, source) |->
            MergeOperation(object[method], source[method])])

\* _.merge(object, source) on two paths objects
Merge(object, source) ==
    MergeObject(object, source,
        [path \in Shared(object, source) |-> MergePathItem(object[path], source[path])])

(***************************************************************************)
(* getPaths, getSpec                                                       *)
(***************************************************************************)
RoutePath(route) == getFullPath(route) :> (route.action.type :> getOperation(route))

RECURSIVE MergeAll(_, _)
MergeAll(object, sources) ==
    IF sources = <<>> THEN object
    ELSE MergeAll(Merge(object, Head(sources)), Tail(sources))

getPathsThrows(rs) == \E i \in DOMAIN rs : getOperationThrows(rs[i])

getPaths(rs) ==
    LET routePaths == [i \in 1..Len(rs) |-> RoutePath(rs[i])] IN
    IF routePaths = <<>> THEN EmptyObject
    ELSE MergeAll(Head(routePaths), Tail(routePaths))

getSpec(rs) ==
    [components |-> [schemas |-> EmptyObject],
     info |-> [title |-> "", version |-> "1.0.0"],
     openapi |-> "3.0.0",
     paths |-> getPaths(rs)]

(***************************************************************************)
(* Inputs.  A route descriptor as the routing framework hands it over.     *)
(***************************************************************************)
Route(prefix, controllerRoute, actionRoute, controllerType, method, className, methodName, params, responseHandlers, required) ==
    [options |-> [routePrefix |-> prefix, required |-> required],
     controller |-> [route |-> controllerRoute, type |-> controllerType,
                     target |-> className],
     action |-> [route |-> actionRoute, type |-> method, method |-> methodName,
                 target |-> className],
     params |-> params,
     responseHandlers |-> responseHandlers]

Meta(type, name, required, paramtypes, index) ==
    [type |-> type, name |-> name, required |-> required,
     paramtypes |-> paramtypes, index |-> index]

Handler(type, value) == [type |-> type, value |-> value]

UsersController == <<"U","s","e","r","s","C","o","n","t","r","o","l","l","e","r">>
PostsController == <<"P","o","s","t","s","C","o","n","t","r","o","l","l","e","r">>
BareController == <<"C","o","n","t","r","o","l","l","e","r">>
GetAll == <<"g","e","t","A","l","l">>
ListAll == <<"l","i","s","t","A","l","l">>
GetOne == <<"g","e","t","O","n","e">>
Create == <<"c","r","e","a","t","e">>
Underscore == <<"_">>

ListQuery == <<"L","i","s","t","Q","u","e","r","y">>
PageQuery == <<"P","a","g","e","Q","u","e","r","y">>
UserBody == <<"U","s","e","r","B","o","d","y">>

Flags == <<None, Some(TRUE), Some(FALSE)>>

\* every classification with every explicit flag, then descriptors with a
\* second name, no name, a second class, and ones whose type is not recorded
Descriptors ==
    <<Meta("param", Some(<<"a">>), None, Some(<<NumberClass>>), 0),
      Meta("param", Some(<<"a">>), Some(TRUE), Some(<<NumberClass, StringClass>>), 1),
      Meta("param", Some(<<"a">>), Some(FALSE), Some(<<NumberClass>>), 0),
      Meta("query", Some(<<"a">>), None, Some(<<NumberClass>>), 0),
      Meta("query", Some(<<"a">>), Some(TRUE), Some(<<NumberClass>>), 0),
      Meta("query", None, Some(FALSE), Some(<<StringClass>>), 0),
      Meta("queries", None, None, Some(<<ListQuery>>), 0),
      Meta("queries", None, Some(TRUE), Some(<<NumberClass, PageQuery>>), 1),
      Meta("queries", None, Some(FALSE), Some(<<ListQuery>>), 0),
      Meta("body", None, None, Some(<<UserBody>>), 0),
      Meta("body", None, Some(TRUE), Some(<<UserBody>>), 0),
      Meta("body", None, Some(FALSE), Some(<<ListQuery>>), 0),
      Meta("param", Some(<<"b">>), None, Some(<<StringClass>>), 0),
      Meta("param", Some(<<"b">>), None, Some(<<NumberClass>>), 1),
      Meta("query", Some(<<"b">>), None, None, 0),
      Meta("body", None, None, Some(<<>>), 0)>>

Handlers ==
    <<Handler("content-type", "text/csv"),
      Handler("content-type", "application/xml"),
      Handler("success-code", 201),
      Handler("success-code", 204),
      Handler("header", "x-total")>>

PathAlphabet == {"/", ":", "a", "{", "}"}

ControllerRoutes == <<<<>>, <<"/","u">>, <<"/",":","a">>, <<"/","{","a">>>>

Prefixes == <<None, Some(<<"/","v">>)>>

\* routes that share and do not share a full path and a method
MergeRoutes ==
    <<Route(None, <<"/","u">>, <<>>, "json", "get", UsersController, GetAll,
            <<>>, <<>>, None),
      Route(None, <<"/","u">>, <<>>, "default", "get", PostsController, ListAll,
            <<Descriptors[4], Descriptors[6]>>,
            <<Handlers[3], Handlers[1]>>, None),
      Route(None, <<>>, <<"/","u">>, "json", "get", BareController, Underscore,
            <<Descriptors[7]>>, <<>>, Some(TRUE)),
      Route(None, <<"/","u">>, <<"/",":","a">>, "json", "get", UsersController, GetOne,
            <<Descriptors[1]>>, <<>>, None),
      Route(None, <<"/","u">>, <<"/",":","a">>, "json", "get", PostsController, GetOne,
            <<Descriptors[9], Descriptors[6]>>, <<Handlers[4]>>, None),
      Route(None, <<"/","u">>, <<>>, "json", "post", UsersController, Create,
            <<Descriptors[10]>>, <<Handlers[3]>>, None),
      Route(None, <<"/","u">>, <<>>, "json", "post", PostsController, Create,
            <<Descriptors[12]>>, <<>>, Some(TRUE)),
      Route(None, <<"/","u">>, <<>>, "json", "post", UsersController, GetAll,
            <<>>, <<Handlers[2]>>, None),
      Route(None, <<"/","u">>, <<>>, "json", "get", UsersController, ListAll,
            <<Descriptors[15]>>, <<>>, None),
      Route(None, <<"/","u">>, <<>>, "json", "post", BareController, Underscore,
            <<>>, <<>>, None)>>

Returned(value) == [threw |-> FALSE, value |-> value]
Thrown == [threw |-> TRUE, value |-> "TypeError"]

Start(rs) ==
    /\ routes = rs
    /\ called = "none"
    /\ arg = 0
    /\ ret = Returned(None)

\* one route whose path strings vary
InitPaths ==
    \E p \in DOMAIN Prefixes, c \in DOMAIN ControllerRoutes, n \in 0..MaxSeg :
        \E actionRoute \in [1..n -> PathAlphabet] :
            Start(<<Route(Prefixes[p], ControllerRoutes[c], actionRoute, "json", "get",
                          UsersController, GetOne, <<Descriptors[3]>>, <<>>, None)>>)

\* one route whose parameter descriptors and global required default vary
InitParams ==
    \E g \in DOMAIN Flags, n \in 0..MaxParams :
        \E ix \in [1..n -> DOMAIN Descriptors] :
            Start(<<Route(None, <<"/","u">>, <<"/",":","a","/",":","b">>, "json", "get", UsersController, GetOne,
                          [i \in 1..n |-> Descriptors[ix[i]]], <<>>, Flags[g])>>)

\* one route whose response handlers and controller type vary
InitHandlers ==
    \E t \in {"json", "default"}, n \in 0..MaxHandlers :
        \E ix \in [1..n -> DOMAIN Handlers] :
            Start(<<Route(None, <<"/","u">>, <<>>, t, "get", UsersController, GetAll,
                          <<>>, [i \in 1..n |-> Handlers[ix[i]]], None)>>)

\* several routes
InitRoutes ==
    \E n \in 0..MaxRoutes :
        \E ix \in [1..n -> DOMAIN MergeRoutes] :
            Start([i \in 1..n |-> MergeRoutes[ix[i]]])

Init == InitPaths \/ InitParams \/ InitHandlers \/ InitRoutes

(***************************************************************************)
(* One action per exported function.                                       *)
(***************************************************************************)
Call(name, i, outcome) ==
    /\ called = "none"
    /\ called' = name
    /\ arg' = i
    /\ ret' = outcome
    /\ UNCHANGED routes

CallGetFullPath ==
    \E i \in DOMAIN routes : Call("getFullPath", i, Returned(getFullPath(routes[i])))

CallGetPathParams ==
    \E i \in DOMAIN routes :
        Call("getPathParams", i,
             IF getPathParamsThrows(routes[i]) THEN Thrown
             ELSE Returned(getPathParams(routes[i])))

CallGetQueryParams ==
    \E i \in DOMAIN routes :
        Call("getQueryParams", i,
             IF getQueryParamsThrows(routes[i]) THEN Thrown
             ELSE Returned(getQueryParams(routes[i])))

CallGetRequestBody ==
    \E i \in DOMAIN routes :
        Call("getRequestBody", i,
             IF getRequestBodyThrows(routes[i]) THEN Thrown
             ELSE Returned(getRequestBody(routes[i])))

CallGetResponses ==
    \E i \in DOMAIN routes : Call("getResponses", i, Returned(getResponses(routes[i])))

CallGetOperation ==
    \E i \in DOMAIN routes :
        Call("getOperation", i,
             IF getOperationThrows(routes[i]) THEN Thrown
             ELSE Returned(getOperation(routes[i])))

CallGetPaths ==
    Call("getPaths", 0, IF getPathsThrows(routes) THEN Thrown ELSE Returned(getPaths(routes)))

CallGetSpec ==
    Call("getSpec", 0, IF getPathsThrows(routes) THEN Thrown ELSE Returned(getSpec(routes)))

Next ==
    \/ CallGetFullPath
    \/ CallGetPathParams
    \/ CallGetQueryParams
    \/ CallGetRequestBody
    \/ CallGetResponses
    \/ CallGetOperation
    \/ CallGetPaths
    \/ CallGetSpec

Spec == Init /\ [][Next]_vars

(***************************************************************************)
(* Vocabulary of the properties.                                           *)
(***************************************************************************)
Done(name) == called = name /\ ~ret.threw

\* the route a per-route call was given
Arg == routes[arg]

Min(S) == CHOOSE k \in S : \A h \in S : k <= h
Max(S) == CHOOSE k \in S : \A h \in S : k >= h

\* the elements of a set of naturals, ascending
RECURSIVE Ascending(_)
Ascending(S) == IF S = {} THEN <<>> ELSE <<Min(S)>> \o Ascending(S \ {Min(S)})

OfType(list, type) == {k \in DOMAIN list : list[k].type = type}

\* the required-resolution law, as a table over the global default and the
\* descriptor's own flag
LawRequired(global, own) ==
    CASE global = Some(TRUE) /\ own = Some(FALSE) -> FALSE
      [] global = Some(TRUE) -> TRUE
      [] own = Some(TRUE) -> TRUE
      [] OTHER -> FALSE

\* the class recorded for a descriptor (only used where the call returned)
ClassOf(meta) == meta.paramtypes[1][meta.index + 1]

\* the {name} placeholders of a path: where each starts, and its name
PlaceholderEnds(s, i) ==
    {j \in (i + 2)..Len(s) : s[j] = "}" /\ \A k \in (i + 1)..(j - 1) : s[k] \in IdentChars}
PlaceholderStarts(s) == {i \in DOMAIN s : s[i] = "{" /\ PlaceholderEnds(s, i) # {}}
Placeholders(s) ==
    LET starts == Ascending(PlaceholderStarts(s)) IN
    [n \in DOMAIN starts |->
        SubSeq(s, starts[n] + 1, Min(PlaceholderEnds(s, starts[n])) - 1)]

\* the :name tokens of a route string: a colon followed by the longest run
\* of [A-Za-z0-9_], which no earlier token has consumed
TokenStarts(s) ==
    {i \in DOMAIN s : /\ s[i] = ":"
                      /\ i < Len(s)
                      /\ s[i + 1] \in IdentChars}
TokenName(s, i) ==
    LET stops == {j \in (i + 1)..(Len(s) + 1) : j = Len(s) + 1 \/ s[j] \notin IdentChars}
    IN SubSeq(s, i + 1, Min(stops) - 1)
ColonTokens(s) ==
    LET starts == Ascending(TokenStarts(s)) IN
    [n \in DOMAIN starts |-> TokenName(s, starts[n])]

\* the parameters of a returned operation ([] when the key was dropped)
ParametersOf(operation) ==
    IF "parameters" \in DOMAIN operation THEN operation.parameters ELSE <<>>

\* the routes registered at a full path and method
RoutesAt(path, method) ==
    {i \in DOMAIN routes : getFullPath(routes[i]) = path /\ routes[i].action.type = method}

FullPaths == {getFullPath(routes[i]) : i \in DOMAIN routes}
Methods == {routes[i].action.type : i \in DOMAIN routes}

\* <<path, method>> of every operation of a paths object
OperationsOf(paths) == UNION {{<<p, m>> : m \in DOMAIN paths[p]} : p \in DOMAIN paths}

(***************************************************************************)
(* Required-ness of emitted parameters and request bodies.                 *)
(***************************************************************************)
\* C1: wherever getPathParams, getQueryParams or getRequestBody turns a
\* declared descriptor into output, the emitted required value follows the
\* required-resolution law: under defaults.paramOptions.required = true it is
\* true unless the descriptor's flag is explicitly false; otherwise it is true
\* only if the flag is explicitly true.
C1_RequiredResolution ==
    /\ Done("getPathParams") =>
         \A i \in DOMAIN ret.value :
            LET named == {k \in OfType(Arg.params, "param") :
                             Arg.params[k].name = Some(ret.value[i].name)}
            IN named # {} =>
                 ret.value[i].required =
                     LawRequired(Arg.options.required, Arg.params[Min(named)].required)
    /\ Done("getQueryParams") =>
         LET query == Ascending(OfType(Arg.params, "query"))
             queries == OfType(Arg.params, "queries")
         IN /\ Len(ret.value) = Len(query) + (IF queries = {} THEN 0 ELSE 1)
            /\ \A j \in DOMAIN query :
                 ret.value[j].required =
                     LawRequired(Arg.options.required, Arg.params[query[j]].required)
            /\ queries # {} =>
                 ret.value[Len(query) + 1].required =
                     LawRequired(Arg.options.required, Arg.params[Min(queries)].required)
    /\ Done("getRequestBody") =>
         LET body == OfType(Arg.params, "body") IN
         body # {} =>
            /\ ret.value # None
            /\ ret.value[1].required =
                   LawRequired(Arg.options.required, Arg.params[Min(body)].required)

\* a query parameter without a flag of its own, emitted as required under
\* the global-required policy, next to one whose explicit false overrides it
C1_Witness ==
    /\ Done("getQueryParams")
    /\ Arg.options.required = Some(TRUE)
    /\ Len(ret.value) = 2
    /\ Arg.params[1].type = "query" /\ Arg.params[1].required = None
    /\ Arg.params[2].type = "query" /\ Arg.params[2].required = Some(FALSE)
    /\ ret.value[1].required = TRUE
    /\ ret.value[2].required = FALSE

(***************************************************************************)
(* Placeholders of the full path.                                          *)
(***************************************************************************)
\* C7 as stated: for every route, the {name} placeholders of getFullPath(R)
\* are exactly the :name tokens of routePrefix + controller.route +
\* action.route, in order.
C7_Original ==
    Done("getFullPath") => Placeholders(ret.value) = ColonTokens(RawPath(Arg))

\* C7 amended: for every route whose concatenated route string holds no
\* literal {name} group, the {name} placeholders of getFullPath(R) are exactly
\* the :name tokens of the concatenation, same names in the same order.
C7_PlaceholdersAreTokens ==
    (Done("getFullPath") /\ Placeholders(RawPath(Arg)) = <<>>)
        => Placeholders(ret.value) = ColonTokens(RawPath(Arg))

\* a path with two tokens and no literal group, rewritten
C7_Witness ==
    /\ Done("getFullPath")
    /\ Placeholders(RawPath(Arg)) = <<>>
    /\ Len(ColonTokens(RawPath(Arg))) >= 2
    /\ Len(Placeholders(ret.value)) >= 2

(***************************************************************************)
(* Path parameters.                                                        *)
(***************************************************************************)
\* C9: getPathParams(R) has one entry per {name} placeholder occurrence of
\* getFullPath(R), in left-to-right order and without deduplication, each
\* in 'path' and named after its placeholder; an entry no 'param' descriptor
\* names is required and of type 'string', any other takes required and type
\* ('number' or 'string') from the first descriptor that names it.
C9_PathParams ==
    Done("getPathParams") =>
        LET names == Placeholders(getFullPath(Arg)) IN
        /\ Len(ret.value) = Len(names)
        /\ \A i \in DOMAIN names :
             LET entry == ret.value[i]
                 named == {k \in OfType(Arg.params, "param") :
                              Arg.params[k].name = Some(names[i])}
             IN /\ entry.in = "path"
                /\ entry.name = names[i]
                /\ DOMAIN entry.schema = {"type"}
                /\ IF named = {}
                   THEN entry.required = TRUE /\ entry.schema.type = "string"
                   ELSE LET meta == Arg.params[Min(named)] IN
                        /\ entry.required =
                               LawRequired(Arg.options.required, meta.required)
                        /\ entry.schema.type =
                               (IF ClassOf(meta) = NumberClass THEN "number" ELSE "string")

\* a placeholder that occurs twice and is named by a descriptor, next to
\* the entries it yields
C9_Witness ==
    /\ Done("getPathParams")
    /\ Len(ret.value) >= 2
    /\ ret.value[1].name = ret.value[2].name
    /\ \E k \in OfType(Arg.params, "param") : Arg.params[k].name = Some(ret.value[1].name)
    /\ ret.value[1].schema.type = "number"

(***************************************************************************)
(* Responses.                                                              *)
(***************************************************************************)
DigitString == <<"0","1","2","3","4","5","6","7","8","9">>

\* the decimal form of a natural number
RECURSIVE Decimal(_)
Decimal(n) ==
    IF n < 10 THEN DigitString[n + 1]
    ELSE Decimal(n \div 10) \o DigitString[(n % 10) + 1]

\* C10: getResponses(R) has exactly one entry; its key is the string form of
\* the first 'success-code' handler's value, or "200"; its content has one
\* media type, the first 'content-type' handler's value, else
\* 'application/json' for a json controller, else 'text/html; charset=utf-8';
\* the content body is empty and the description 'Successful response'.
C10_Responses ==
    Done("getResponses") =>
        LET hs == Arg.responseHandlers
            codes == OfType(hs, "success-code")
            types == OfType(hs, "content-type")
            status == IF codes = {} THEN "200" ELSE Decimal(hs[Min(codes)].value)
            media == IF types # {} THEN hs[Min(types)].value
                     ELSE IF Arg.controller.type = "json" THEN "application/json"
                     ELSE "text/html; charset=utf-8"
        IN /\ DOMAIN ret.value = {status}
           /\ DOMAIN ret.value[status] = {"content", "description"}
           /\ DOMAIN ret.value[status].content = {media}
           /\ DOMAIN ret.value[status].content[media] = {}
           /\ ret.value[status].description = "Successful response"

\* two success-code handlers with different values: the first one keys the entry
C10_Witness ==
    /\ Done("getResponses")
    /\ Len(Arg.responseHandlers) = 2
    /\ Arg.responseHandlers[1].type = "success-code"
    /\ Arg.responseHandlers[2].type = "success-code"
    /\ Arg.responseHandlers[1].value # Arg.responseHandlers[2].value
    /\ DOMAIN ret.value = {Decimal(Arg.responseHandlers[1].value)}

(***************************************************************************)
(* Order of an operation's parameters.                                     *)
(***************************************************************************)
\* whether a query entry is the one its descriptor yields
QueryEntryOf(entry, meta) ==
    /\ entry.in = "query"
    /\ IF meta.type = "query"
       THEN /\ entry.name = (IF meta.name = None THEN <<>> ELSE meta.name[1])
            /\ DOMAIN entry.schema = {"type"}
            /\ entry.schema.type =
                   (IF ClassOf(meta) = NumberClass THEN "number" ELSE "string")
       ELSE /\ entry.name = ClassOf(meta)
            /\ DOMAIN entry.schema = {"$ref"}

\* parameters is the path entries, in placeholder order, then the entries
\* of the descriptors that order lists
ParametersFollow(operation, route, order) ==
    LET names == Placeholders(getFullPath(route))
        parameters == ParametersOf(operation)
    IN /\ Len(parameters) = Len(names) + Len(order)
       /\ \A i \in DOMAIN names :
            parameters[i].in = "path" /\ parameters[i].name = names[i]
       /\ \A j \in DOMAIN order :
            QueryEntryOf(parameters[Len(names) + j], route.params[order[j]])

FirstQueries(route) ==
    IF OfType(route.params, "queries") = {} THEN {}
    ELSE {Min(OfType(route.params, "queries"))}

\* C2 as stated: getOperation(R).parameters lists the path parameters, in
\* placeholder order, before the query parameters, and the query parameters,
\* the 'queries' entry included, are in the declaration order of their
\* descriptors in route.params.
C2_Original ==
    Done("getOperation") =>
        ParametersFollow(ret.value, Arg,
            Ascending(OfType(Arg.params, "query") \cup FirstQueries(Arg)))

\* C2 amended: the parameters of the operation getOperation(R) returns are
\* the path parameters, in placeholder order, then the entries of the 'query'
\* descriptors in their declaration order, then, last, the entry of the first
\* 'queries' descriptor, wherever that descriptor was declared.
C2_ParameterOrder ==
    Done("getOperation") =>
        ParametersFollow(ret.value, Arg,
            Ascending(OfType(Arg.params, "query")) \o Ascending(FirstQueries(Arg)))

\* a 'queries' descriptor declared before a 'query' descriptor, on a path
\* with two placeholders: its entry comes last
C2_Witness ==
    /\ Done("getOperation")
    /\ Len(Arg.params) = 2
    /\ Arg.params[1].type = "queries"
    /\ Arg.params[2].type = "query"
    /\ Len(ret.value.parameters) = 4
    /\ ret.value.parameters[1].in = "path"
    /\ DOMAIN ret.value.parameters[3].schema = {"type"}
    /\ DOMAIN ret.value.parameters[4].schema = {"$ref"}

(***************************************************************************)
(* Routes that share a full path and a method.                             *)
(***************************************************************************)
\* C3 as stated: when routes share a full path and a method, every field of
\* the last such route's operation is the merged operation's value of that
\* field.
C3_Original ==
    Done("getPaths") =>
        \A pm \in OperationsOf(ret.value) :
            LET at == RoutesAt(pm[1], pm[2])
                merged == ret.value[pm[1]][pm[2]]
                later == getOperation(routes[Max(at)])
            IN Cardinality(at) >= 2 =>
                 \A f \in DOMAIN later : f \in DOMAIN merged /\ merged[f] = later[f]

\* C3 amended: when routes share a full path and a method, the output has
\* one method entry for them, the later route's operation merged into the
\* earlier one's: operationId and tags, and summary and requestBody when the
\* later route has them, hold the later route's values; responses keeps the
\* status codes and media types of all these routes; parameters is as long as
\* the longest of theirs, and the later route's in, name, required and schema
\* keys overwrite those of the parameter at the same index.
C3_MergedDuplicates ==
    Done("getPaths") =>
        \A pm \in OperationsOf(ret.value) :
            LET at == RoutesAt(pm[1], pm[2])
                merged == ret.value[pm[1]][pm[2]]
                later == getOperation(routes[Max(at)])
                pathMethods == {routes[i].action.type :
                                   i \in {h \in DOMAIN routes : getFullPath(routes[h]) = pm[1]}}
            IN Cardinality(at) >= 2 =>
                 /\ DOMAIN ret.value[pm[1]] = pathMethods
                 /\ merged.operationId = later.operationId
                 /\ merged.tags = later.tags
                 /\ \A f \in {"summary", "requestBody"} \cap DOMAIN later :
                        f \in DOMAIN merged /\ merged[f] = later[f]
                 /\ DOMAIN merged.responses =
                        UNION {DOMAIN getOperation(routes[i]).responses : i \in at}
                 /\ \A status \in DOMAIN merged.responses :
                        DOMAIN merged.responses[status].content =
                            UNION {DOMAIN getOperation(routes[i]).responses[status].content :
                                      i \in {h \in at :
                                                status \in DOMAIN getOperation(routes[h]).responses}}
                 /\ Len(ParametersOf(merged)) =
                        Max({Len(ParametersOf(getOperation(routes[i]))) : i \in at})
                 /\ \A x \in DOMAIN ParametersOf(later) :
                        LET a == merged.parameters[x]
                            b == later.parameters[x]
                        IN /\ a.in = b.in
                           /\ a.name = b.name
                           /\ a.required = b.required
                           /\ \A k \in DOMAIN b.schema :
                                  k \in DOMAIN a.schema /\ a.schema[k] = b.schema[k]

\* two routes at one path and method that resolve different status codes:
\* the merged operation has the later operationId and both responses
C3_Witness ==
    /\ Done("getPaths")
    /\ Len(routes) = 2
    /\ \E pm \in OperationsOf(ret.value) :
          /\ RoutesAt(pm[1], pm[2]) = {1, 2}
          /\ ret.value[pm[1]][pm[2]].operationId = getOperationId(routes[2])
          /\ getOperationId(routes[1]) # getOperationId(routes[2])
          /\ Cardinality(DOMAIN ret.value[pm[1]][pm[2]].responses) = 2

(***************************************************************************)
(* Response entries of the operations of a document.                       *)
(***************************************************************************)
\* the status code a route resolves
StatusOf(route) ==
    LET codes == OfType(route.responseHandlers, "success-code") IN
    IF codes = {} THEN "200" ELSE Decimal(route.responseHandlers[Min(codes)].value)

OneResponseEach(paths) ==
    \A pm \in OperationsOf(paths) :
        Cardinality(DOMAIN paths[pm[1]][pm[2]].responses) = 1

OneResponsePerStatus(paths) ==
    \A pm \in OperationsOf(paths) :
        DOMAIN paths[pm[1]][pm[2]].responses =
            {StatusOf(routes[i]) : i \in RoutesAt(pm[1], pm[2])}

\* C4 as stated: every operation found in getSpec(routes).paths, or
\* getPaths(routes), has exactly one response entry.
C4_Original ==
    /\ Done("getPaths") => OneResponseEach(ret.value)
    /\ Done("getSpec") => OneResponseEach(ret.value.paths)

\* C4 amended: every operation found in getSpec(routes).paths, or
\* getPaths(routes), has one response entry per distinct status code that the
\* routes registered at its path and method resolve: exactly one when a
\* single route is registered there, as in every getOperation(R).
C4_ResponsePerStatus ==
    /\ Done("getPaths") => OneResponsePerStatus(ret.value)
    /\ Done("getSpec") => OneResponsePerStatus(ret.value.paths)
    /\ Done("getOperation") => DOMAIN ret.value.responses = {StatusOf(Arg)}

\* a document of two routes at one path and method resolving different
\* status codes: its operation has two response entries
C4_Witness ==
    /\ Done("getSpec")
    /\ \E pm \in OperationsOf(ret.value.paths) :
          /\ RoutesAt(pm[1], pm[2]) = {1, 2}
          /\ StatusOf(routes[1]) # StatusOf(routes[2])
          /\ Cardinality(DOMAIN ret.value.paths[pm[1]][pm[2]].responses) = 2

(***************************************************************************)
(* Failure.                                                                *)
(***************************************************************************)
\* C5: getSpec and every function it calls never throws, for any sequence
\* of route descriptors, also when the type lookup returns nothing or has
\* no entry at a declared parameter's index.
C5_NeverThrows == ~ret.threw

(***************************************************************************)
(* Keys of the paths object.                                               *)
(***************************************************************************)
\* C6: getPaths(routes) has an operation under path p and method m if and
\* only if some route has full path p and action type m.
C6_PathsAndMethods ==
    Done("getPaths") =>
        \A p \in DOMAIN ret.value \cup FullPaths :
            \A m \in Methods \cup (IF p \in DOMAIN ret.value THEN DOMAIN ret.value[p] ELSE {}) :
                (p \in DOMAIN ret.value /\ m \in DOMAIN ret.value[p])
                    <=> RoutesAt(p, m) # {}

\* two routes at one path with different methods: both methods under it
C6_Witness ==
    /\ Done("getPaths")
    /\ Len(routes) = 2
    /\ getFullPath(routes[1]) = getFullPath(routes[2])
    /\ routes[1].action.type # routes[2].action.type
    /\ DOMAIN ret.value = {getFullPath(routes[1])}
    /\ DOMAIN ret.value[getFullPath(routes[1])] = {"get", "post"}

(***************************************************************************)
(* Empty fields of an operation.                                           *)
(***************************************************************************)
\* C8: the object getOperation(R) returns has no key whose value is empty;
\* parameters is present only when the route has a path or query parameter,
\* requestBody only when a 'body' descriptor exists.
C8_NoEmptyFields ==
    Done("getOperation") =>
        /\ \A k \in DOMAIN ret.value : DOMAIN ret.value[k] # {}
        /\ "parameters" \in DOMAIN ret.value =>
              \/ Placeholders(getFullPath(Arg)) # <<>>
              \/ OfType(Arg.params, "query") \cup OfType(Arg.params, "queries") # {}
        /\ "requestBody" \in DOMAIN ret.value => OfType(Arg.params, "body") # {}

\* a route with no parameter, no body and an empty summary: all three
\* keys are dropped
C8_Witness ==
    /\ Done("getOperation")
    /\ DOMAIN ret.value = {"operationId", "responses", "tags"}

====
